---- MODULE Spec2Model ----
(***************************************************************************)
(* Model of the Oracle job-tracking backend: accounts and roles            *)
(* (api/user/user_router.py), jobs and ratings (api/jobs/job_router.py),   *)
(* searches (api/search/search_router.py) over the SQLite store            *)
(* (data/database.py, data/models/*.py).                                   *)
(*                                                                         *)
(* The committed store is the variable db.  Every HTTP handler is an       *)
(* operator from (store, token, arguments) to a response and a new store;  *)
(* the actions of Spec run one handler to completion per step (requests    *)
(* served one after the other), the actions of SpecConc run the handlers   *)
(* of the role and deletion endpoints statement by statement on several    *)
(* workers, as FastAPI does with its thread pool.  SpecStore and SpecJobs  *)
(* serve the job and search routers one request at a time, SpecJobsConc    *)
(* runs create_job statement by statement, SpecSession lets the clock      *)
(* advance over issued tokens and SpecCredentials registers accounts with  *)
(* any password.  SpecSearch creates, updates and deletes searches,        *)
(* SpecData creates and deletes jobs, ratings, searches and accounts,      *)
(* SpecAccounts registers and deletes accounts without changes of role     *)
(* and SpecRegister runs create_user statement by statement.               *)
(* services/auth.py (HashHelper, Auth, get_user, get_admin) is modelled    *)
(* from its documented behaviour.                                          *)
(***************************************************************************)
EXTENDS Integers, FiniteSets, Sequences, TLC

\* ---- bounds -------------------------------------------------------------
MaxNames == 2      \* usernames and e-mail addresses are 1..MaxNames
MaxId == 2         \* account ids are capped at MaxId
MaxTokens == 1     \* number of tokens issued by login
MaxJobs == 1       \* job ids are capped at MaxJobs
MaxKeys == 1       \* external keys (iid) a client supplies are 1..MaxKeys
MaxSearches == 1   \* search ids are capped at MaxSearches
MaxWorkers == 2    \* requests in flight at once (SpecConc, SpecJobs)
MaxPasswords == 2  \* passwords are 1..MaxPasswords
MaxClock == 3      \* the clock runs from 0 to MaxClock (SpecSession)

None == -1         \* Python None for an optional integer (a payload may carry 0)

Names == 1..MaxNames
Emails == 1..MaxNames
Keys == 1..MaxKeys
Workers == 1..MaxWorkers
Passwords == 1..MaxPasswords

\* Search.job_title: the title a search was created with and another one.
Titles == {1, 2}

\* db, tokens, reqs: the store, the tokens in circulation and the requests
\* in flight; now: the server's clock; last: the last response sent.
VARIABLES db, tokens, last, reqs, now

vars == <<db, tokens, last, reqs, now>>

\* ---- the store ----------------------------------------------------------
\* db.users    : rows of table user    [id, username, email, password_hash, admin]
\* db.jobs     : rows of table job     [id, iid]
\* db.ratings  : rows of table rating  [job_id, user_id]
\* db.searches : rows of table search  [id, user_id, job_title, created_at,
\*                                        updated_at]

MaxOf(S) == CHOOSE m \in S : \A x \in S : x <= m

\* SQLite INTEGER PRIMARY KEY without AUTOINCREMENT: the new row gets the
\* largest id in the table plus one, so the id of a deleted last row is
\* handed out again.
NextRowId(rows) == IF rows = {} THEN 1 ELSE MaxOf({r.id : r \in rows}) + 1

UserIds(d) == {u.id : u \in d.users}

UserById(d, id) == CHOOSE u \in d.users : u.id = id

HasUsername(d, n) == \E u \in d.users : u.username = n

UserByName(d, n) == CHOOSE u \in d.users : u.username = n

Admins(d) == {u \in d.users : u.admin}

\* ---- responses ----------------------------------------------------------
Resp(status, detail, d) == [status |-> status, detail |-> detail, db |-> d]

\* ---- credentials --------------------------------------------------------
\* services.auth.HashHelper: a salted one-way hash.  The digest of a salt
\* and a plaintext is modelled by the pair itself (no two pairs collide).
Salts == {1, 2}

Digest(salt, plaintext) == <<salt, plaintext>>

\* HashHelper.hash(plaintext), with the salt the call draws.
hash(plaintext, salt) == [salt |-> salt, digest |-> Digest(salt, plaintext)]

\* HashHelper.verify(plaintext, credential): false on a malformed
\* credential, never an exception.
verify(plaintext, credential) ==
    /\ credential.salt \in Salts
    /\ credential.digest = Digest(credential.salt, plaintext)

NoCredential == [salt |-> None, digest |-> <<None, None>>]

\* ---- tokens and access guards ------------------------------------------
\* A token carries the claims of UserAuthData (username, user_id), the trust
\* tier, the times of issue and expiry, and a signature over them.
\* admin_at_issue is a history field: the role the account had when the
\* token was issued; it is not part of the token and no guard reads it.
SecretKey == 1     \* Environment.secret_key

ForeignKey == SecretKey + 1    \* a signing key that is not the server's

TTL == 2           \* lifetime of a token

Body(tok) == <<tok.user_id, tok.username, tok.trusted, tok.iat, tok.exp>>

Sign(key, body) == [key |-> key, body |-> body]

NoToken == [user_id |-> None, username |-> None, admin_at_issue |-> FALSE,
            trusted |-> FALSE, iat |-> None, exp |-> None,
            sig |-> Sign(None, <<>>)]

NoUser == [id |-> None, username |-> None, email |-> None,
           password_hash |-> NoCredential, admin |-> FALSE]

\* Auth.create_token(UserAuthData(username, user_id), trusted_client) at
\* time t: the claims with exp = t + TTL, signed with the server's secret.
create_token(user, trusted_client, t) ==
    LET claims == [user_id |-> user.id, username |-> user.username,
                   admin_at_issue |-> user.admin, trusted |-> trusted_client,
                   iat |-> t, exp |-> t + TTL, sig |-> Sign(None, <<>>)]
    IN [claims EXCEPT !.sig = Sign(SecretKey, Body(claims))]

\* validate without the comparison of the clock with exp.
validate_unexpiring(tok, t) ==
    IF tok.sig = Sign(SecretKey, Body(tok)) THEN tok ELSE NoToken

\* Auth's validation of a presented token at time t: the token itself when
\* its signature verifies against the server's secret and t is before exp,
\* otherwise invalid (NoToken).  It reads no store.
validate(tok, t) ==
    IF tok.sig = Sign(SecretKey, Body(tok)) /\ t < tok.exp THEN tok ELSE NoToken

\* services.auth.get_user, given the outcome of validate: the account is
\* loaded by the subject id of the claims; a missing or invalid token, or a
\* token whose account no longer exists, is unauthenticated.
get_user(d, tok) ==
    IF tok = NoToken THEN [status |-> 401, user |-> NoUser]
    ELSE IF tok.user_id \notin UserIds(d) THEN [status |-> 401, user |-> NoUser]
    ELSE [status |-> 200, user |-> UserById(d, tok.user_id)]

\* services.auth.get_admin: get_user, then 403 unless the account is admin.
get_admin(d, tok) ==
    LET r == get_user(d, tok) IN
    IF r.status # 200 THEN r
    ELSE IF ~r.user.admin THEN [status |-> 403, user |-> NoUser]
    ELSE r

AuthDetail(status) == IF status = 403 THEN "Forbidden" ELSE "Unauthenticated"

\* ---- user_router --------------------------------------------------------
\* get_users deciding on the role the token was issued with.
get_users_role_of_token(d, tok) ==
    LET a == get_user(d, tok) IN
    IF a.status # 200 THEN Resp(a.status, AuthDetail(a.status), d)
    ELSE IF ~tok.admin_at_issue THEN Resp(403, AuthDetail(403), d)
    ELSE Resp(200, "users", d)

\* GET /user
get_users(d, tok) ==
    LET a == get_admin(d, tok) IN
    IF a.status # 200 THEN Resp(a.status, AuthDetail(a.status), d)
    ELSE Resp(200, "users", d)

\* POST /user/{user_name}/admin
upgrade_user(d, tok, user_name) ==
    LET a == get_admin(d, tok) IN
    IF a.status # 200 THEN Resp(a.status, AuthDetail(a.status), d)
    ELSE IF ~HasUsername(d, user_name) THEN Resp(404, "User not found", d)
    ELSE LET user == UserByName(d, user_name) IN
         IF user.admin THEN Resp(400, "User is already admin", d)
         ELSE Resp(200, "ok",
                   [d EXCEPT !.users = (@ \ {user}) \cup {[user EXCEPT !.admin = TRUE]}])

\* downgrade_user without the count of the administrators.
downgrade_user_uncounted(d, tok, user_name) ==
    LET a == get_admin(d, tok) IN
    IF a.status # 200 THEN Resp(a.status, AuthDetail(a.status), d)
    ELSE IF ~HasUsername(d, user_name) THEN Resp(404, "User not found", d)
    ELSE LET user == UserByName(d, user_name) IN
         IF user.admin = FALSE THEN Resp(400, "User is not an admin", d)
         ELSE Resp(200, "ok",
                   [d EXCEPT !.users = (@ \ {user}) \cup {[user EXCEPT !.admin = FALSE]}])

\* DELETE /user/{user_name}/admin
downgrade_user(d, tok, user_name) ==
    LET a == get_admin(d, tok) IN
    IF a.status # 200 THEN Resp(a.status, AuthDetail(a.status), d)
    ELSE IF ~HasUsername(d, user_name) THEN Resp(404, "User not found", d)
    ELSE LET user == UserByName(d, user_name)
             admin_count == Cardinality(Admins(d))
         IN
         IF user.admin = FALSE THEN Resp(400, "User is not an admin", d)
         ELSE IF admin_count = 1 /\ user.admin
              THEN Resp(400, "Can't downgrade the last admin", d)
         ELSE Resp(200, "ok",
                   [d EXCEPT !.users = (@ \ {user}) \cup {[user EXCEPT !.admin = FALSE]}])

\* session.delete(user) + commit with the dependent rows left as they are
\* (relationships declared passive).
OrmDeleteUser_passive(d, u) ==
    Resp(200, "User deleted successfully", [d EXCEPT !.users = {x \in @ : x.id # u.id}])

\* session.delete(user) + commit.  User.ratings and User.searches are
\* relationships without a delete cascade: on flush the ORM blanks the
\* user_id of the dependent rows, which is part of Rating's primary key and
\* NOT NULL in Search, so the flush raises and the request ends in 500 with
\* the transaction rolled back.
OrmDeleteUser(d, u) ==
    IF (\E r \in d.ratings : r.user_id = u.id) \/ (\E s \in d.searches : s.user_id = u.id)
    THEN Resp(500, "Internal Server Error", d)
    ELSE Resp(200, "User deleted successfully",
              [d EXCEPT !.users = {x \in @ : x.id # u.id}])

\* delete_user looking the target up before the ownership check, which it
\* then applies to existing targets only.
delete_user_lookup_first(d, tok, user_id) ==
    LET a == get_user(d, tok)
        user == a.user
    IN
    IF a.status # 200 THEN Resp(a.status, AuthDetail(a.status), d)
    ELSE IF user_id = None THEN OrmDeleteUser(d, user)
    ELSE IF user_id \notin UserIds(d) THEN Resp(404, "User not found", d)
    ELSE IF user.id # user_id /\ ~user.admin THEN Resp(403, "Unable to delete user", d)
    ELSE OrmDeleteUser(d, UserById(d, user_id))

\* DELETE /user/delete?user_id=
delete_user(d, tok, user_id) ==
    LET a == get_user(d, tok)
        user == a.user
    IN
    IF a.status # 200 THEN Resp(a.status, AuthDetail(a.status), d)
    ELSE IF user_id = None THEN OrmDeleteUser(d, user)
    ELSE IF user.id # user_id /\ ~user.admin THEN Resp(403, "Unable to delete user", d)
    ELSE IF user_id \notin UserIds(d) THEN Resp(404, "User not found", d)
    ELSE OrmDeleteUser(d, UserById(d, user_id))

\* POST /user/login at time t.  An identifier is a username or an e-mail
\* address (create_user refuses a username that is an e-mail address and an
\* e-mail that is not one).
Matches(u, ident) ==
    \/ ident.kind = "username" /\ u.username = ident.value
    \/ ident.kind = "email" /\ u.email = ident.value

Identifiers == [kind : {"username", "email"}, value : Names]

\* login looking the account up by username only.
login_by_username(d, ident, password, t) ==
    IF ~\E u \in d.users : ident.kind = "username" /\ u.username = ident.value
    THEN [status |-> 404, detail |-> "User not found", token |-> NoToken, db |-> d]
    ELSE LET user == CHOOSE u \in d.users : u.username = ident.value IN
         IF verify(password, user.password_hash) = FALSE
         THEN [status |-> 401, detail |-> "Invalid credentials", token |-> NoToken, db |-> d]
         ELSE [status |-> 200, detail |-> "token",
               token |-> create_token(user, FALSE, t), db |-> d]

login(d, ident, password, t) ==
    IF ~\E u \in d.users : Matches(u, ident)
    THEN [status |-> 404, detail |-> "User not found", token |-> NoToken, db |-> d]
    ELSE LET user == CHOOSE u \in d.users : Matches(u, ident) IN
         IF verify(password, user.password_hash) = FALSE
         THEN [status |-> 401, detail |-> "Invalid credentials", token |-> NoToken, db |-> d]
         ELSE [status |-> 200, detail |-> "token",
               token |-> create_token(user, FALSE, t), db |-> d]

\* create_user making the new account an administrator when the store has
\* none.
create_user_admin_when_none(d, username, email, password, salt, well_formed) ==
    LET errors == (\E u \in d.users : u.username = username)
                  \/ (\E u \in d.users : u.email = email)
                  \/ ~well_formed
    IN
    IF errors THEN Resp(400, "errors", d)
    ELSE Resp(200, "ok",
              [d EXCEPT !.users = @ \cup {[id |-> NextRowId(d.users), username |-> username,
                                            email |-> email,
                                            password_hash |-> hash(password, salt),
                                            admin |-> (Admins(d) = {})]}])

\* create_user storing the password as it was supplied, unhashed.
create_user_plaintext(d, username, email, password, salt, well_formed) ==
    LET errors == (\E u \in d.users : u.username = username)
                  \/ (\E u \in d.users : u.email = email)
                  \/ ~well_formed
    IN
    IF errors THEN Resp(400, "errors", d)
    ELSE Resp(200, "ok",
              [d EXCEPT !.users = @ \cup {[id |-> NextRowId(d.users), username |-> username,
                                            email |-> email,
                                            password_hash |-> [salt |-> None,
                                                               digest |-> <<None, password>>],
                                            admin |-> FALSE]}])

\* POST /user/create.  well_formed is the outcome of the format checks on
\* e-mail, username and password (lines 123-160); salt is the salt
\* HashHelper.hash draws.
create_user(d, username, email, password, salt, well_formed) ==
    LET errors == (\E u \in d.users : u.username = username)
                  \/ (\E u \in d.users : u.email = email)
                  \/ ~well_formed
    IN
    IF errors THEN Resp(400, "errors", d)
    ELSE Resp(200, "ok",
              [d EXCEPT !.users = @ \cup {[id |-> NextRowId(d.users), username |-> username,
                                            email |-> email,
                                            password_hash |-> hash(password, salt),
                                            admin |-> FALSE]}])

\* ---- job_router ---------------------------------------------------------
MinOf(S) == CHOOSE m \in S : \A x \in S : m <= x

HasRating(d, job_id, user_id) ==
    \E r \in d.ratings : r.job_id = job_id /\ r.user_id = user_id

\* A generated key that is the same for every request.
FreshKey_fixed(d) == None - 1

\* str(uuid.uuid4()): a key no job of the table carries (generated keys are
\* negative, client keys positive).
FreshKey(d) == MinOf({j.iid : j \in d.jobs} \cup {None}) - 1

\* GET /jobs/all
get_all_jobs(d, tok) ==
    LET a == get_admin(d, tok) IN
    IF a.status # 200 THEN Resp(a.status, AuthDetail(a.status), d)
    ELSE Resp(200, "jobs", d)

\* create_job without the lookup of the caller's rating (lines 97-107): the
\* insert of a rating that exists fails on its primary key.
create_job_unchecked_link(d, tok, id, iid) ==
    LET a == get_user(d, tok)
        user == a.user
        generated == (iid = None)
        key == IF generated THEN FreshKey(d) ELSE iid
        found == IF generated THEN {} ELSE {j \in d.jobs : j.iid = key}
        existing_job == IF found = {} THEN None ELSE MinOf({j.id : j \in found})
        jobid == IF existing_job # None THEN existing_job
                 ELSE IF id # None THEN id
                 ELSE NextRowId(d.jobs)
    IN
    IF a.status # 200 THEN Resp(a.status, AuthDetail(a.status), d)
    ELSE IF id # None /\ id # 0 THEN Resp(400, "Job id is not allowed for new job", d)
    ELSE IF existing_job # None /\ HasRating(d, existing_job, user.id)
         THEN Resp(500, "Internal Server Error", d)
    ELSE IF existing_job = None /\ (\E j \in d.jobs : j.id = jobid)
         THEN Resp(500, "Internal Server Error", d)
    ELSE Resp(200,
              IF existing_job # None
              THEN "The Job already existed and is now linked to your account"
              ELSE "The Job has been created",
              [d EXCEPT !.jobs = IF existing_job # None THEN @
                                 ELSE @ \cup {[id |-> jobid, iid |-> key]},
                        !.ratings = @ \cup {[job_id |-> jobid, user_id |-> user.id]}])

\* create_job inserting the payload's Job row also when a job with its key
\* exists (line 109 without its condition).
create_job_new_row(d, tok, id, iid) ==
    LET a == get_user(d, tok)
        user == a.user
        generated == (iid = None)
        key == IF generated THEN FreshKey(d) ELSE iid
        found == IF generated THEN {} ELSE {j \in d.jobs : j.iid = key}
        existing_job == IF found = {} THEN None ELSE MinOf({j.id : j \in found})
        newid == IF id # None THEN id ELSE NextRowId(d.jobs)
        jobid == IF existing_job # None THEN existing_job ELSE newid
    IN
    IF a.status # 200 THEN Resp(a.status, AuthDetail(a.status), d)
    ELSE IF id # None /\ id # 0 THEN Resp(400, "Job id is not allowed for new job", d)
    ELSE IF existing_job # None /\ HasRating(d, existing_job, user.id)
         THEN Resp(400, "Job already exists and has a rating for user", d)
    ELSE IF \E j \in d.jobs : j.id = newid
         THEN Resp(500, "Internal Server Error", d)
    ELSE Resp(200,
              IF existing_job # None
              THEN "The Job already existed and is now linked to your account"
              ELSE "The Job has been created",
              [d EXCEPT !.jobs = @ \cup {[id |-> newid, iid |-> key]},
                        !.ratings = @ \cup {[job_id |-> jobid, user_id |-> user.id]}])

\* POST /jobs/create.  id and iid are the payload's fields (None if absent).
\* Line 88 tests the truth value of job.id, which is false for None and for
\* 0: a payload with id 0 goes on, and its Job row is inserted with that id
\* (a primary-key conflict on flush ends the request in 500).
create_job(d, tok, id, iid) ==
    LET a == get_user(d, tok)
        user == a.user
        generated == (iid = None)
        key == IF generated THEN FreshKey(d) ELSE iid
        found == IF generated THEN {} ELSE {j \in d.jobs : j.iid = key}
        existing_job == IF found = {} THEN None ELSE MinOf({j.id : j \in found})
        jobid == IF existing_job # None THEN existing_job
                 ELSE IF id # None THEN id
                 ELSE NextRowId(d.jobs)
    IN
    IF a.status # 200 THEN Resp(a.status, AuthDetail(a.status), d)
    ELSE IF id # None /\ id # 0 THEN Resp(400, "Job id is not allowed for new job", d)
    ELSE IF existing_job # None /\ HasRating(d, existing_job, user.id)
         THEN Resp(400, "Job already exists and has a rating for user", d)
    ELSE IF existing_job = None /\ (\E j \in d.jobs : j.id = jobid)
         THEN Resp(500, "Internal Server Error", d)
    ELSE Resp(200,
              IF existing_job # None
              THEN "The Job already existed and is now linked to your account"
              ELSE "The Job has been created",
              [d EXCEPT !.jobs = IF existing_job # None THEN @
                                 ELSE @ \cup {[id |-> jobid, iid |-> key]},
                        !.ratings = @ \cup {[job_id |-> jobid, user_id |-> user.id]}])

\* The Rating model (data/models/rating.py) declares no attribute archived:
\* reading user_rating.archived raises AttributeError, the request ends in
\* 500 and nothing is committed.
ArchivedFlag(d, tok_status, job_id, user_id) ==
    IF tok_status # 200 THEN Resp(tok_status, AuthDetail(tok_status), d)
    ELSE IF ~HasRating(d, job_id, user_id) THEN Resp(404, "Job not found", d)
    ELSE Resp(500, "Internal Server Error", d)

\* POST /jobs/archive/{job_id}
archive_job(d, tok, job_id) ==
    LET a == get_user(d, tok) IN ArchivedFlag(d, a.status, job_id, a.user.id)

\* POST /jobs/unarchive/{job_id}
unarchive_job(d, tok, job_id) ==
    LET a == get_user(d, tok) IN ArchivedFlag(d, a.status, job_id, a.user.id)

\* POST /jobs/sudo_archive
sudo_archive_job(d, tok, user_id, job_id) ==
    ArchivedFlag(d, get_admin(d, tok).status, job_id, user_id)

\* POST /jobs/sudo_unarchive
sudo_unarchive_job(d, tok, user_id, job_id) ==
    ArchivedFlag(d, get_admin(d, tok).status, job_id, user_id)

\* DELETE /jobs/delete/{job_id}
delete_rating(d, tok, job_id) ==
    LET a == get_user(d, tok) IN
    IF a.status # 200 THEN Resp(a.status, AuthDetail(a.status), d)
    ELSE IF ~HasRating(d, job_id, a.user.id) THEN Resp(404, "Job not found", d)
    ELSE Resp(200, "Job deleted successfully",
              [d EXCEPT !.ratings = @ \ {[job_id |-> job_id, user_id |-> a.user.id]}])

\* sudo_delete_rating depending on get_user instead of get_admin.
sudo_delete_rating_any_user(d, tok, user_id, job_id) ==
    LET a == get_user(d, tok) IN
    IF a.status # 200 THEN Resp(a.status, AuthDetail(a.status), d)
    ELSE IF ~HasRating(d, job_id, user_id) THEN Resp(404, "Job not found", d)
    ELSE Resp(200, "Job deleted successfully",
              [d EXCEPT !.ratings = @ \ {[job_id |-> job_id, user_id |-> user_id]}])

\* DELETE /jobs/delete_rating
sudo_delete_rating(d, tok, user_id, job_id) ==
    LET a == get_admin(d, tok) IN
    IF a.status # 200 THEN Resp(a.status, AuthDetail(a.status), d)
    ELSE IF ~HasRating(d, job_id, user_id) THEN Resp(404, "Job not found", d)
    ELSE Resp(200, "Job deleted successfully",
              [d EXCEPT !.ratings = @ \ {[job_id |-> job_id, user_id |-> user_id]}])

\* sudo_delete_job on a connection in autocommit mode: the DELETE of the
\* job is kept when the flush then fails on its ratings.
sudo_delete_job_autocommit(d, tok, job_id) ==
    LET a == get_admin(d, tok) IN
    IF a.status # 200 THEN Resp(a.status, AuthDetail(a.status), d)
    ELSE IF ~\E j \in d.jobs : j.id = job_id THEN Resp(404, "Job not found", d)
    ELSE Resp(IF \E r \in d.ratings : r.job_id = job_id THEN 500 ELSE 200,
              IF \E r \in d.ratings : r.job_id = job_id
              THEN "Internal Server Error" ELSE "Job deleted successfully",
              [d EXCEPT !.jobs = {j \in @ : j.id # job_id}])

\* DELETE /jobs/delete_job/{job_id}.  Job.ratings has no delete cascade: the
\* flush blanks rating.job_id, a primary-key column, and raises (500).
sudo_delete_job(d, tok, job_id) ==
    LET a == get_admin(d, tok) IN
    IF a.status # 200 THEN Resp(a.status, AuthDetail(a.status), d)
    ELSE IF ~\E j \in d.jobs : j.id = job_id THEN Resp(404, "Job not found", d)
    ELSE IF \E r \in d.ratings : r.job_id = job_id
         THEN Resp(500, "Internal Server Error", d)
    ELSE Resp(200, "Job deleted successfully",
              [d EXCEPT !.jobs = {j \in @ : j.id # job_id}])

\* ---- search_router ------------------------------------------------------
\* GET /search/all
get_all_searches(d, tok) ==
    LET a == get_admin(d, tok) IN
    IF a.status # 200 THEN Resp(a.status, AuthDetail(a.status), d)
    ELSE Resp(200, "searches", d)

\* A request body of the Search model: id, created_at and updated_at are
\* optional (None when the body leaves them out), user_id and job_title are
\* required fields of the model (search.py 23-24), so a handler only sees
\* bodies that carry them.
SearchPayloads(ids, user_ids, titles, stamps) ==
    [id : ids, user_id : user_ids, job_title : titles,
     created_at : stamps, updated_at : stamps]

\* create_search without the ownership check of lines 32-37: the row is
\* owned by the user_id of the body.
create_search_for_anyone(d, tok, search, t) ==
    LET a == get_user(d, tok)
        id == IF search.id = None THEN NextRowId(d.searches) ELSE search.id
        row == [id |-> id, user_id |-> search.user_id, job_title |-> search.job_title,
                created_at |-> IF search.created_at = None THEN t ELSE search.created_at,
                updated_at |-> IF search.updated_at = None THEN t ELSE search.updated_at]
    IN
    IF a.status # 200 THEN Resp(a.status, AuthDetail(a.status), d)
    ELSE IF search.id # None /\ search.id # 0
         THEN Resp(400, "Search id is not allowed for new search", d)
    ELSE IF \E s \in d.searches : s.id = id
         THEN Resp(500, "Internal Server Error", d)
    ELSE Resp(200, "Search created successfully", [d EXCEPT !.searches = @ \cup {row}])

\* POST /search/create at time t.  Line 27 tests the truth value of
\* search.id and line 37 that of search.user_id, both false for None and for
\* 0: a body with id 0 goes on and its row is inserted with that id (a
\* primary-key conflict on commit ends the request in 500), and an
\* administrator's user_id 0 is replaced by the administrator's own id.
\* Timestamps the body leaves out are set to the current time.
create_search(d, tok, search, t) ==
    LET a == get_user(d, tok)
        user == a.user
        owner == IF user.admin /\ search.user_id # 0 THEN search.user_id ELSE user.id
        id == IF search.id = None THEN NextRowId(d.searches) ELSE search.id
        row == [id |-> id, user_id |-> owner, job_title |-> search.job_title,
                created_at |-> IF search.created_at = None THEN t ELSE search.created_at,
                updated_at |-> IF search.updated_at = None THEN t ELSE search.updated_at]
    IN
    IF a.status # 200 THEN Resp(a.status, AuthDetail(a.status), d)
    ELSE IF search.id # None /\ search.id # 0
         THEN Resp(400, "Search id is not allowed for new search", d)
    ELSE IF user.id # search.user_id /\ ~user.admin
         THEN Resp(403, "You cannot create a search for another user", d)
    ELSE IF \E s \in d.searches : s.id = id
         THEN Resp(500, "Internal Server Error", d)
    ELSE Resp(200, "Search created successfully", [d EXCEPT !.searches = @ \cup {row}])

\* update copying every field the body carries, the ignored ones included.
update_every_field(d, tok, search) ==
    LET a == get_user(d, tok)
        user == a.user
    IN
    IF a.status # 200 THEN Resp(a.status, AuthDetail(a.status), d)
    ELSE IF search.id = None \/ search.id = 0 THEN Resp(400, "Search id is required", d)
    ELSE IF ~\E s \in d.searches : s.id = search.id THEN Resp(404, "Search not found", d)
    ELSE LET existing_search == CHOOSE s \in d.searches : s.id = search.id IN
         IF existing_search.user_id # user.id /\ ~user.admin
         THEN Resp(403, "You cannot update this search", d)
         ELSE Resp(200, "Search updated successfully",
                   [d EXCEPT !.searches = (@ \ {existing_search}) \cup
                       {[id |-> search.id, user_id |-> search.user_id,
                         job_title |-> search.job_title,
                         created_at |-> IF search.created_at = None
                                        THEN existing_search.created_at
                                        ELSE search.created_at,
                         updated_at |-> IF search.updated_at = None
                                        THEN existing_search.updated_at
                                        ELSE search.updated_at]}])

\* POST /search/update.  Line 46 refuses a body whose id is None or 0; of
\* the fields the body sets, all but id, user_id, created_at and updated_at
\* are copied to the row (lines 57-62).
update(d, tok, search) ==
    LET a == get_user(d, tok)
        user == a.user
    IN
    IF a.status # 200 THEN Resp(a.status, AuthDetail(a.status), d)
    ELSE IF search.id = None \/ search.id = 0 THEN Resp(400, "Search id is required", d)
    ELSE IF ~\E s \in d.searches : s.id = search.id THEN Resp(404, "Search not found", d)
    ELSE LET existing_search == CHOOSE s \in d.searches : s.id = search.id IN
         IF existing_search.user_id # user.id /\ ~user.admin
         THEN Resp(403, "You cannot update this search", d)
         ELSE Resp(200, "Search updated successfully",
                   [d EXCEPT !.searches = (@ \ {existing_search}) \cup
                       {[existing_search EXCEPT !.job_title = search.job_title]}])

\* DELETE /search/delete/{search_id}
delete_search(d, tok, search_id) ==
    LET a == get_user(d, tok)
        user == a.user
    IN
    IF a.status # 200 THEN Resp(a.status, AuthDetail(a.status), d)
    ELSE IF ~\E s \in d.searches : s.id = search_id THEN Resp(404, "Search not found", d)
    ELSE LET existing_search == CHOOSE s \in d.searches : s.id = search_id IN
         IF existing_search.user_id # user.id /\ ~user.admin
         THEN Resp(403, "You cannot delete this search", d)
         ELSE Resp(200, "Search deleted successfully",
                   [d EXCEPT !.searches = @ \ {existing_search}])

\* ---- requests served one after the other --------------------------------
\* What a request may present: a token in circulation, as validation finds
\* it now, or no token.
Toks == {validate(tok, now) : tok \in tokens} \cup {NoToken}

\* The user_id a delete request may carry: absent, an id in use or an id no
\* account has.
OptUserIds == {None} \cup (1..(MaxId + 1))

JobIds == 1..MaxJobs

NoJob == [id |-> None, iid |-> None]

NoNewUser == [username |-> None, email |-> None]

\* A worker's request: its position (pc), its inputs (op, tok, user_name,
\* user_id, job, new_user_data), the handler's locals (user, target,
\* admin_count, existing_job, errors, flushed: the Job row inserted in its
\* open transaction) and its response status.  aim, admins_at_start, unseen
\* and taken are history fields: the id of the account the request
\* designates, the ids of the administrators in the store when the request
\* arrived, whether no job carried the request's key then, and whether an
\* account had the request's username or e-mail address then.
Idle == [pc |-> "idle", op |-> "none", tok |-> NoToken, user_name |-> None, user_id |-> None,
         user |-> NoUser, target |-> NoUser, admin_count |-> 0, aim |-> None,
         admins_at_start |-> {}, status |-> 0,
         job |-> NoJob, existing_job |-> None, flushed |-> NoJob, unseen |-> FALSE,
         new_user_data |-> NoNewUser, errors |-> FALSE, taken |-> FALSE]

NoRequest == [op |-> "init", status |-> 0, detail |-> ""]

\* The stores the tests provision before the first request: the first
\* account is an administrator, a second provisioned account may or may not
\* be one.  Their password is the fixtures' (HashHelper.hash('password')).
Provisioned ==
    LET first == [id |-> 1, username |-> 1, email |-> 1,
                  password_hash |-> hash(1, 1), admin |-> TRUE]
        second(a) == [id |-> 2, username |-> 2, email |-> 2,
                      password_hash |-> hash(1, 1), admin |-> a]
    IN {[users |-> us, jobs |-> {}, ratings |-> {}, searches |-> {}] :
            us \in {{first}, {first, second(TRUE)}, {first, second(FALSE)}}}

Init ==
    /\ db \in Provisioned
    /\ tokens = {}
    /\ last = NoRequest
    /\ reqs = [w \in Workers |-> Idle]
    /\ now = 0

\* tests/fixtures.py create_test_client_with_user: the accounts are
\* provisioned and a token is created for each of them.
InitFixture ==
    /\ db \in Provisioned
    /\ tokens = {create_token(u, TRUE, 0) : u \in db.users}
    /\ last = NoRequest
    /\ reqs = [w \in Workers |-> Idle]
    /\ now = 0

Step(op, r) ==
    /\ db' = r.db
    /\ last' = [op |-> op, status |-> r.status, detail |-> r.detail]
    /\ UNCHANGED <<tokens, reqs, now>>

Login ==
    \E ident \in Identifiers, password \in Passwords :
        LET r == login(db, ident, password, now) IN
        /\ r.status = 200 => (r.token \in tokens \/ Cardinality(tokens) < MaxTokens)
        /\ tokens' = IF r.status = 200 THEN tokens \cup {r.token} ELSE tokens
        /\ db' = r.db
        /\ last' = [op |-> "login", status |-> r.status, detail |-> r.detail]
        /\ UNCHANGED <<reqs, now>>

\* Registrations with a password of pws, hashed with a salt of salts.
Register(pws, salts) ==
    \E username \in Names, email \in Emails, password \in pws, salt \in salts,
       well_formed \in BOOLEAN :
        /\ NextRowId(db.users) <= MaxId
        /\ Step("create_user", create_user(db, username, email, password, salt, well_formed))

\* Registrations with the password of the documented example.
CreateUser == Register({1}, {1})

\* Registrations with any password.
CreateUserAnyPassword == Register(Passwords, Salts)

GetUsers == \E tok \in Toks : Step("get_users", get_users(db, tok))

UpgradeUser ==
    \E tok \in Toks, user_name \in Names :
        Step("upgrade_user", upgrade_user(db, tok, user_name))

DowngradeUser ==
    \E tok \in Toks, user_name \in Names :
        Step("downgrade_user", downgrade_user(db, tok, user_name))

DeleteUser ==
    \E tok \in Toks, user_id \in OptUserIds :
        Step("delete_user", delete_user(db, tok, user_id))

GetAllJobs == \E tok \in Toks : Step("get_all_jobs", get_all_jobs(db, tok))

\* Job claims whose payload carries an id of ids.
ClaimJob(ids) ==
    \E tok \in Toks, id \in ids, iid \in {None} \cup Keys :
        /\ NextRowId(db.jobs) <= MaxJobs
        /\ Step("create_job", create_job(db, tok, id, iid))

\* Payloads without an id or with the id of the tests.
CreateJob == ClaimJob({None, 1})

\* Payloads with any id.
CreateJobAnyId == ClaimJob({None, 0, 1})

ArchiveJob ==
    \E tok \in Toks, job_id \in JobIds :
        Step("archive_job", archive_job(db, tok, job_id))

UnarchiveJob ==
    \E tok \in Toks, job_id \in JobIds :
        Step("unarchive_job", unarchive_job(db, tok, job_id))

SudoArchiveJob ==
    \E tok \in Toks, user_id \in 1..MaxId, job_id \in JobIds :
        Step("sudo_archive_job", sudo_archive_job(db, tok, user_id, job_id))

SudoUnarchiveJob ==
    \E tok \in Toks, user_id \in 1..MaxId, job_id \in JobIds :
        Step("sudo_unarchive_job", sudo_unarchive_job(db, tok, user_id, job_id))

DeleteRating ==
    \E tok \in Toks, job_id \in 0..MaxJobs :
        Step("delete_rating", delete_rating(db, tok, job_id))

SudoDeleteRating ==
    \E tok \in Toks, user_id \in 1..MaxId, job_id \in JobIds :
        Step("sudo_delete_rating", sudo_delete_rating(db, tok, user_id, job_id))

SudoDeleteJob ==
    \E tok \in Toks, job_id \in JobIds :
        Step("sudo_delete_job", sudo_delete_job(db, tok, job_id))

GetAllSearches ==
    \E tok \in Toks : Step("get_all_searches", get_all_searches(db, tok))

\* Searches created with a body whose id is of ids and whose user_id is of
\* user_ids, with a job title of titles and the timestamps left out.
PostSearch(ids, user_ids, titles) ==
    \E tok \in Toks, search \in SearchPayloads(ids, user_ids, titles, {None}) :
        /\ NextRowId(db.searches) <= MaxSearches
        /\ Step("create_search", create_search(db, tok, search, now))

\* Bodies without an id or with the id of the tests, for an account id in
\* use or one no account has.
CreateSearch == PostSearch({None, 1}, 1..(MaxId + 1), {1})

\* Bodies with any id, any user_id and any title.
CreateSearchAnyId == PostSearch({None, 0, 1}, 0..(MaxId + 1), Titles)

\* Bodies of an update: any id and title, the user_id of the first account
\* and the timestamps left out.
UpdateSearch ==
    \E tok \in Toks,
       search \in SearchPayloads({None} \cup (0..MaxSearches), {1}, Titles, {None}) :
        Step("update", update(db, tok, search))

\* Searches an account creates for itself.
CreateOwnSearch ==
    \E tok \in Toks :
        /\ NextRowId(db.searches) <= MaxSearches
        /\ Step("create_search",
                create_search(db, tok,
                              [id |-> None, user_id |-> tok.user_id, job_title |-> 1,
                               created_at |-> None, updated_at |-> None], now))

DeleteSearch ==
    \E tok \in Toks, search_id \in 0..MaxSearches :
        Step("delete_search", delete_search(db, tok, search_id))

\* Accounts, roles and sessions.
Next ==
    \/ Login
    \/ CreateUser
    \/ GetUsers
    \/ UpgradeUser
    \/ DowngradeUser
    \/ DeleteUser

Spec == Init /\ [][Next]_vars

\* Jobs, ratings and searches of the provisioned accounts, with the
\* administrator-only operations of the job and search routers.
NextStore ==
    \/ GetAllJobs
    \/ CreateJob
    \/ SudoArchiveJob
    \/ SudoDeleteRating
    \/ SudoDeleteJob
    \/ GetAllSearches
    \/ CreateSearch

SpecStore == InitFixture /\ [][NextStore]_vars

\* Job claims of the provisioned accounts, served one after the other.
NextJobs ==
    \/ CreateJobAnyId
    \/ ArchiveJob
    \/ UnarchiveJob
    \/ DeleteRating
    \/ GetAllJobs

SpecJobs == InitFixture /\ [][NextJobs]_vars

\* Searches of the provisioned accounts, served one after the other.
NextSearch ==
    \/ CreateSearchAnyId
    \/ UpdateSearch
    \/ DeleteSearch

SpecSearch == InitFixture /\ [][NextSearch]_vars

\* Jobs, ratings, searches and accounts of the provisioned accounts: the
\* rows an account creates for itself, and the deletions.
NextData ==
    \/ CreateJob
    \/ DeleteRating
    \/ SudoDeleteRating
    \/ SudoDeleteJob
    \/ CreateOwnSearch
    \/ DeleteUser

SpecData == InitFixture /\ [][NextData]_vars

\* Accounts registered, logged in and deleted, with no change of role.
NextAccounts ==
    \/ CreateUser
    \/ Login
    \/ DeleteUser

SpecAccounts == Init /\ [][NextAccounts]_vars

\* ---- sessions over time (SpecSession) ------------------------------------
\* Tokens a client can fabricate: the claims of an account signed with a key
\* that is not the server's, and an issued token whose expiry was pushed
\* back without a new signature.
Forged ==
    {[tok EXCEPT !.sig = Sign(ForeignKey, Body(tok))] :
        tok \in {create_token(u, tier, now) : u \in db.users, tier \in BOOLEAN}}

Tampered == {[tok EXCEPT !.exp = @ + TTL] : tok \in tokens}

\* The clock advances.
Tick ==
    /\ now < MaxClock
    /\ now' = now + 1
    /\ UNCHANGED <<db, tokens, last, reqs>>

\* GET /user with a bearer token: one in circulation or a fabricated one.
GetUsersBearer ==
    \E tok \in tokens \cup Forged \cup Tampered :
        Step(IF tok \in tokens THEN "get_users" ELSE "get_users_forged",
             get_users(db, validate(tok, now)))

NextSession ==
    \/ Login
    \/ Tick
    \/ GetUsersBearer

SpecSession == Init /\ [][NextSession]_vars

\* ---- credentials of registered accounts (SpecCredentials) ----------------
NextCredentials ==
    \/ CreateUserAnyPassword
    \/ Login
    \/ GetUsers
    \/ UpgradeUser

SpecCredentials == Init /\ [][NextCredentials]_vars

\* ---- requests in flight together (SpecConc) ------------------------------
\* upgrade_user and downgrade_user are plain functions, which FastAPI runs
\* on its thread pool: their statements interleave with those of other
\* requests.  Each SELECT reads the committed store (the sqlite3 driver
\* opens a transaction only before the first write), and commit() writes
\* the pending UPDATE.  delete_user is a coroutine without await: its body
\* runs in one piece on the event loop, after its dependencies (get_user)
\* were resolved.

RoleOps == {"upgrade_user", "downgrade_user"}

SetReq(w, r) == reqs' = [reqs EXCEPT ![w] = r]

Done(r, status) == [r EXCEPT !.pc = "done", !.status = status]

\* The request arrives and its access guard (Depends(get_admin) or
\* Depends(get_user)) is evaluated.
BeginRole(w) ==
    \E op \in RoleOps, tok \in Toks, user_name \in Names :
        LET a == get_admin(db, tok)
            r == [Idle EXCEPT !.op = op, !.tok = tok, !.user_name = user_name,
                              !.aim = IF HasUsername(db, user_name)
                                      THEN UserByName(db, user_name).id ELSE None,
                              !.admins_at_start = {u.id : u \in Admins(db)}]
        IN
        /\ reqs[w].pc = "idle"
        /\ SetReq(w, IF a.status # 200 THEN Done(r, a.status)
                     ELSE [r EXCEPT !.pc = "read_user", !.user = a.user])
        /\ UNCHANGED <<db, tokens, last, now>>

BeginDelete(w) ==
    \E tok \in Toks, user_id \in OptUserIds :
        LET a == get_user(db, tok)
            r == [Idle EXCEPT !.op = "delete_user", !.tok = tok, !.user_id = user_id,
                              !.aim = IF user_id = None THEN tok.user_id ELSE user_id,
                              !.admins_at_start = {u.id : u \in Admins(db)}]
        IN
        /\ reqs[w].pc = "idle"
        /\ SetReq(w, IF a.status # 200 THEN Done(r, a.status)
                     ELSE [r EXCEPT !.pc = "body", !.user = a.user])
        /\ UNCHANGED <<db, tokens, last, now>>

\* user_router.py 187-191 and 208-212: the target is read and checked.
ReadUser(w) ==
    LET r == reqs[w] IN
    /\ r.pc = "read_user"
    /\ IF ~HasUsername(db, r.user_name) THEN SetReq(w, Done(r, 404))
       ELSE LET user == UserByName(db, r.user_name) IN
            IF r.op = "upgrade_user"
            THEN IF user.admin THEN SetReq(w, Done(r, 400))
                 ELSE SetReq(w, [r EXCEPT !.pc = "commit", !.target = user])
            ELSE IF user.admin = FALSE THEN SetReq(w, Done(r, 400))
                 ELSE SetReq(w, [r EXCEPT !.pc = "count_admins", !.target = user])
    /\ UNCHANGED <<db, tokens, last, now>>

\* user_router.py 213-216: the administrators are counted.
CountAdmins(w) ==
    LET r == reqs[w]
        admin_count == Cardinality(Admins(db))
    IN
    /\ r.pc = "count_admins"
    /\ IF admin_count = 1 /\ r.target.admin
       THEN SetReq(w, Done([r EXCEPT !.admin_count = admin_count], 400))
       ELSE SetReq(w, [r EXCEPT !.pc = "commit", !.admin_count = admin_count])
    /\ UNCHANGED <<db, tokens, last, now>>

\* user_router.py 192-193 and 217-218: user.admin is assigned and the
\* session commits UPDATE user SET admin = ... WHERE id = user.id.  When the
\* row is gone the UPDATE matches no row and the ORM raises (500).
Commit(w) ==
    LET r == reqs[w]
        flag == (r.op = "upgrade_user")
    IN
    /\ r.pc = "commit"
    /\ IF r.target.id \notin UserIds(db)
       THEN /\ SetReq(w, Done(r, 500))
            /\ UNCHANGED db
       ELSE /\ db' = [db EXCEPT !.users = {IF u.id = r.target.id
                                            THEN [u EXCEPT !.admin = flag] ELSE u : u \in @}]
            /\ SetReq(w, Done(r, 200))
    /\ UNCHANGED <<tokens, last, now>>

\* user_router.py 226-244 with the account object loaded by get_user:
\* db.get(User, user_id) on the caller's own id returns that object from
\* the session; a DELETE that matches no row only warns.
DeleteBody(w) ==
    LET r == reqs[w]
        user == r.user
        own == (r.user_id = None \/ r.user_id = user.id)
        existing == IF own THEN user ELSE UserById(db, r.user_id)
    IN
    /\ r.pc = "body"
    /\ IF r.user_id # None /\ user.id # r.user_id /\ ~user.admin
       THEN SetReq(w, Done(r, 403)) /\ UNCHANGED db
       ELSE IF ~own /\ r.user_id \notin UserIds(db)
       THEN SetReq(w, Done(r, 404)) /\ UNCHANGED db
       ELSE LET res == OrmDeleteUser(db, existing) IN
            /\ db' = res.db
            /\ SetReq(w, Done([r EXCEPT !.target = existing], res.status))
    /\ UNCHANGED <<tokens, last, now>>

\* The response is sent and the worker takes the next request.
Finish(w) ==
    /\ reqs[w].pc = "done"
    /\ SetReq(w, Idle)
    /\ UNCHANGED <<db, tokens, last, now>>

NextConc ==
    \E w \in Workers :
        \/ BeginRole(w)
        \/ BeginDelete(w)
        \/ ReadUser(w)
        \/ CountAdmins(w)
        \/ Commit(w)
        \/ DeleteBody(w)
        \/ Finish(w)

SpecConc == InitFixture /\ [][NextConc]_vars

\* ---- job claims in flight together (SpecJobsConc) --------------------------
\* create_job is a coroutine without await: within one server process its
\* body runs in one piece.  Server processes started on the same database
\* file each serve their own requests, so the statements of requests served
\* by different processes interleave.  Each SELECT reads the committed
\* store; flush() opens the write transaction of the request's session and
\* SQLite admits one write transaction at a time (a second writer waits,
\* and gets 'database is locked' when its busy timeout runs out); commit()
\* publishes the rows of the transaction together.  Each worker serves one
\* request.

\* Another request holds the write transaction.
LockHeld(w) ==
    \E v \in Workers \ {w} : reqs[v].pc = "commit_rating" /\ reqs[v].flushed # NoJob

\* str(uuid.uuid4()) for a request in flight: a key that no job and no other
\* request carries.
FreshKeyInFlight ==
    MinOf({j.iid : j \in db.jobs} \cup {reqs[v].job.iid : v \in Workers} \cup {None}) - 1

\* job_router.py 70, 88-91: the guard get_user is evaluated, the payload's
\* id is tested and the key is fixed.
BeginCreateJob(w) ==
    \E tok \in Toks, id \in {None, 1}, iid \in {None} \cup Keys :
        LET a == get_user(db, tok)
            generated == (iid = None)
            key == IF generated THEN FreshKeyInFlight ELSE iid
            r == [Idle EXCEPT !.op = "create_job", !.tok = tok, !.user = a.user,
                              !.job = [id |-> id, iid |-> key],
                              !.unseen = ~generated /\ ~\E j \in db.jobs : j.iid = key]
        IN
        /\ reqs[w].pc = "idle"
        /\ SetReq(w, IF a.status # 200 THEN Done(r, a.status)
                     ELSE IF id # None /\ id # 0 THEN Done(r, 400)
                     ELSE IF generated THEN [r EXCEPT !.pc = "flush_job"]
                     ELSE [r EXCEPT !.pc = "find_job"])
        /\ UNCHANGED <<db, tokens, last, now>>

\* job_router.py 93-95: the job is looked up by its key.
FindJob(w) ==
    LET r == reqs[w]
        found == {j \in db.jobs : j.iid = r.job.iid}
    IN
    /\ r.pc = "find_job"
    /\ IF found = {} THEN SetReq(w, [r EXCEPT !.pc = "flush_job"])
       ELSE SetReq(w, [r EXCEPT !.pc = "find_rating",
                                !.existing_job = MinOf({j.id : j \in found})])
    /\ UNCHANGED <<db, tokens, last, now>>

\* job_router.py 97-107: the caller's rating of the existing job is looked up.
FindRating(w) ==
    LET r == reqs[w] IN
    /\ r.pc = "find_rating"
    /\ IF HasRating(db, r.existing_job, r.user.id) THEN SetReq(w, Done(r, 400))
       ELSE SetReq(w, [r EXCEPT !.pc = "commit_rating"])
    /\ UNCHANGED <<db, tokens, last, now>>

\* FlushJob with db.commit() in the place of db.flush().
FlushJob_committing(w) ==
    LET r == reqs[w]
        id == IF r.job.id # None THEN r.job.id ELSE NextRowId(db.jobs)
        row == [id |-> id, iid |-> r.job.iid]
    IN
    /\ r.pc = "flush_job"
    /\ IF LockHeld(w) \/ (\E j \in db.jobs : j.id = id)
       THEN SetReq(w, Done(r, 500)) /\ UNCHANGED db
       ELSE /\ SetReq(w, [r EXCEPT !.pc = "commit_rating", !.flushed = row])
            /\ db' = [db EXCEPT !.jobs = @ \cup {row}]
    /\ UNCHANGED <<tokens, last, now>>

\* job_router.py 109-111: db.add(job); db.flush().  The INSERT runs in the
\* session's transaction and the row gets its id; nothing is committed.  It
\* fails (500) when the write lock is not obtained or the payload's id is
\* the id of a row.
FlushJob(w) ==
    LET r == reqs[w]
        id == IF r.job.id # None THEN r.job.id ELSE NextRowId(db.jobs)
    IN
    /\ r.pc = "flush_job"
    /\ IF LockHeld(w) \/ (\E j \in db.jobs : j.id = id)
       THEN SetReq(w, Done(r, 500))
       ELSE SetReq(w, [r EXCEPT !.pc = "commit_rating",
                                !.flushed = [id |-> id, iid |-> r.job.iid]])
    /\ UNCHANGED <<db, tokens, last, now>>

\* job_router.py 113-118: the rating is added and the session commits: the
\* flushed Job row, if any, and the Rating row are published together.  The
\* commit fails (500, everything rolled back) when the write lock is not
\* obtained or the rating's primary key exists.
CommitRating(w) ==
    LET r == reqs[w]
        jobid == IF r.existing_job # None THEN r.existing_job ELSE r.flushed.id
    IN
    /\ r.pc = "commit_rating"
    /\ IF (r.flushed = NoJob /\ LockHeld(w)) \/ HasRating(db, jobid, r.user.id)
       THEN SetReq(w, Done(r, 500)) /\ UNCHANGED db
       ELSE /\ db' = [db EXCEPT !.jobs = IF r.flushed = NoJob THEN @ ELSE @ \cup {r.flushed},
                                 !.ratings = @ \cup {[job_id |-> jobid, user_id |-> r.user.id]}]
            /\ SetReq(w, Done(r, 200))
    /\ UNCHANGED <<tokens, last, now>>

\* data/database.py 67-71: the request is aborted (its process is stopped or
\* its connection is lost) before its commit: the session is closed and its
\* transaction rolled back; no response is sent (status None).
AbortCreateJob(w) ==
    LET r == reqs[w] IN
    /\ r.pc \in {"find_job", "find_rating", "flush_job", "commit_rating"}
    /\ SetReq(w, Done(r, None))
    /\ UNCHANGED <<db, tokens, last, now>>

NextJobsConc ==
    \E w \in Workers :
        \/ BeginCreateJob(w)
        \/ FindJob(w)
        \/ FindRating(w)
        \/ FlushJob(w)
        \/ CommitRating(w)
        \/ AbortCreateJob(w)

SpecJobsConc == InitFixture /\ [][NextJobsConc]_vars

\* ---- registrations in flight together (SpecRegister) ----------------------
\* create_user is a plain function, which FastAPI runs on its thread pool:
\* the statements of two registrations interleave.  Each SELECT reads the
\* committed store, and commit() runs the INSERT, which the UNIQUE indexes
\* of user.username and user.email (user.py 23-24) refuse with an
\* IntegrityError (500).  The format checks of lines 123-160 read no store;
\* the bodies here pass them.

\* init_db: the tables as they are created, without rows.
EmptyStore == [users |-> {}, jobs |-> {}, ratings |-> {}, searches |-> {}]

\* Registrations start on a new database or on a provisioned one.
InitRegister ==
    /\ db \in Provisioned \cup {EmptyStore}
    /\ tokens = {}
    /\ last = NoRequest
    /\ reqs = [w \in Workers |-> Idle]
    /\ now = 0

\* The workers that serve the two registrations.
Racers == {1, 2}

\* The request arrives with its body.
BeginCreateUser(w) ==
    \E username \in Names, email \in Emails :
        /\ reqs[w].pc = "idle"
        /\ NextRowId(db.users) <= MaxId
        /\ SetReq(w, [Idle EXCEPT
                         !.pc = "check_username", !.op = "create_user",
                         !.new_user_data = [username |-> username, email |-> email],
                         !.taken = \E u \in db.users :
                                       u.username = username \/ u.email = email])
        /\ UNCHANGED <<db, tokens, last, now>>

\* user_router.py 110-115: the username is looked up.
CheckUsername(w) ==
    LET r == reqs[w] IN
    /\ r.pc = "check_username"
    /\ SetReq(w, [r EXCEPT !.pc = "check_email",
                           !.errors = \E u \in db.users :
                                          u.username = r.new_user_data.username])
    /\ UNCHANGED <<db, tokens, last, now>>

\* user_router.py 117-121 and 162-163: the e-mail address is looked up and
\* the request is refused when an error was found.
CheckEmail(w) ==
    LET r == reqs[w]
        errors == r.errors \/ \E u \in db.users : u.email = r.new_user_data.email
    IN
    /\ r.pc = "check_email"
    /\ SetReq(w, IF errors THEN Done([r EXCEPT !.errors = TRUE], 400)
                 ELSE [r EXCEPT !.pc = "commit_user"])
    /\ UNCHANGED <<db, tokens, last, now>>

\* CommitUser on a table without the UNIQUE indexes.
CommitUser_unconstrained(w) ==
    LET r == reqs[w] IN
    /\ r.pc = "commit_user"
    /\ NextRowId(db.users) <= MaxId
    /\ db' = [db EXCEPT !.users = @ \cup
                 {[id |-> NextRowId(db.users), username |-> r.new_user_data.username,
                   email |-> r.new_user_data.email, password_hash |-> hash(1, 1),
                   admin |-> FALSE]}]
    /\ SetReq(w, Done(r, 200))
    /\ UNCHANGED <<tokens, last, now>>

\* user_router.py 165-172: the account is added and the session commits.
CommitUser(w) ==
    LET r == reqs[w]
        conflict == \E u \in db.users : \/ u.username = r.new_user_data.username
                                        \/ u.email = r.new_user_data.email
    IN
    /\ r.pc = "commit_user"
    /\ IF conflict THEN SetReq(w, Done(r, 500)) /\ UNCHANGED db
       ELSE /\ NextRowId(db.users) <= MaxId
            /\ db' = [db EXCEPT !.users = @ \cup
                         {[id |-> NextRowId(db.users),
                           username |-> r.new_user_data.username,
                           email |-> r.new_user_data.email,
                           password_hash |-> hash(1, 1), admin |-> FALSE]}]
            /\ SetReq(w, Done(r, 200))
    /\ UNCHANGED <<tokens, last, now>>

NextRegister ==
    \E w \in Racers :
        \/ BeginCreateUser(w)
        \/ CheckUsername(w)
        \/ CheckEmail(w)
        \/ CommitUser(w)
        \/ Finish(w)

SpecRegister == InitRegister /\ [][NextRegister]_vars

\* ---- properties ----------------------------------------------------------
\* The caller a token resolves to, when it resolves.
Authenticated(tok) == get_user(db, tok).status = 200

Caller(tok) == get_user(db, tok).user

IsAdminCaller(tok) == get_admin(db, tok).status = 200

\* The store d with the admin flag of the account named user_name set to v.
WithAdminFlag(d, user_name, v) ==
    [d EXCEPT !.users = {IF u.username = user_name THEN [u EXCEPT !.admin = v] ELSE u : u \in @}]

\* C1: starting from a store with at least one administrator, the set of
\* accounts with admin = true is non-empty after every request of any
\* sequence of promote, demote, self-service delete and delete-by-id.
C1_AdminSetNeverEmpty == Admins(db) # {}

\* C2: when exactly two administrators exist and two demote/delete requests
\* aimed at the two different administrators are in flight together, exactly
\* one of them succeeds and the other fails with the last-administrator
\* error (400); they never both commit.
Racing(r1, r2) ==
    /\ r1.op \in {"downgrade_user", "delete_user"}
    /\ r2.op \in {"downgrade_user", "delete_user"}
    /\ r1.aim # r2.aim
    /\ r1.admins_at_start = {r1.aim, r2.aim}
    /\ r2.admins_at_start = {r1.aim, r2.aim}
    /\ r1.tok.user_id \in r1.admins_at_start
    /\ r2.tok.user_id \in r2.admins_at_start

C2_ExactlyOneRacerSucceeds ==
    \A w1, w2 \in Workers :
        (w1 # w2 /\ reqs[w1].pc = "done" /\ reqs[w2].pc = "done" /\ Racing(reqs[w1], reqs[w2]))
            => \/ reqs[w1].status = 200 /\ reqs[w2].status = 400
               \/ reqs[w1].status = 400 /\ reqs[w2].status = 200

\* C3: called by an administrator, upgrade_user succeeds (setting admin =
\* true) iff the named target exists and is not an administrator, and
\* downgrade_user succeeds (setting admin = false) iff the target exists, is
\* an administrator and is not the only one; in every other case the request
\* fails with 404 'User not found' or 400 'User is already admin' / 'User is
\* not an admin' / 'Can't downgrade the last admin' and the store is
\* unchanged.
C3_RoleChangePreconditions ==
    \A tok \in tokens, user_name \in Names :
        IsAdminCaller(tok) =>
            LET up == upgrade_user(db, tok, user_name)
                down == downgrade_user(db, tok, user_name)
                exists == HasUsername(db, user_name)
                isAdmin == exists /\ UserByName(db, user_name).admin
                onlyAdmin == isAdmin /\ Cardinality(Admins(db)) = 1
            IN
            /\ up.status = 200 <=> (exists /\ ~isAdmin)
            /\ up.status = 200 => up.db = WithAdminFlag(db, user_name, TRUE)
            /\ up.status # 200 =>
                  /\ up.db = db
                  /\ <<up.status, up.detail>> =
                        IF ~exists THEN <<404, "User not found">>
                        ELSE <<400, "User is already admin">>
            /\ down.status = 200 <=> (exists /\ isAdmin /\ ~onlyAdmin)
            /\ down.status = 200 => down.db = WithAdminFlag(db, user_name, FALSE)
            /\ down.status # 200 =>
                  /\ down.db = db
                  /\ <<down.status, down.detail>> =
                        IF ~exists THEN <<404, "User not found">>
                        ELSE IF ~isAdmin THEN <<400, "User is not an admin">>
                        ELSE <<400, "Can't downgrade the last admin">>

\* The last administrator was asked to step down and was refused.
C3_Witness ==
    /\ last.op = "downgrade_user"
    /\ last.status = 400
    /\ last.detail = "Can't downgrade the last admin"
    /\ Cardinality(Admins(db)) = 1

\* C4: self-service deletion by the only administrator is rejected with 400
\* 'Last admin cannot be deleted' and deletes nothing; it succeeds and
\* removes the caller's account when the caller is not an administrator or
\* another administrator exists.
C4_LastAdminCannotSelfDelete ==
    \A tok \in tokens :
        Authenticated(tok) =>
            LET r == delete_user(db, tok, None)
                caller == Caller(tok)
            IN
            IF caller.admin /\ Admins(db) = {caller}
            THEN r.status = 400 /\ r.detail = "Last admin cannot be deleted" /\ r.db = db
            ELSE r.status = 200 /\ r.db = [db EXCEPT !.users = @ \ {caller}]

\* C5: an administrator who calls the delete-another-account entry point
\* with their own id gets a 400 error and is not deleted, however many
\* administrators exist.
C5_SudoDeleteSelfRejected ==
    \A tok \in tokens :
        IsAdminCaller(tok) =>
            LET r == delete_user(db, tok, Caller(tok).id) IN
            r.status = 400 /\ r.db = db

\* C6: an administrator's delete request without a target user id is
\* rejected as a validation error (422) and deletes no account.
C6_DeleteWithoutIdRejected ==
    \A tok \in tokens :
        IsAdminCaller(tok) =>
            LET r == delete_user(db, tok, None) IN
            r.status = 422 /\ r.db.users = db.users

\* C7: a caller who is not an administrator and requests the deletion of an
\* account other than their own gets 403, whether or not the target exists,
\* and no row of the store changes.
C7_NonAdminCannotDeleteOthers ==
    \A tok \in tokens, user_id \in OptUserIds \ {None} :
        (Authenticated(tok) /\ ~Caller(tok).admin /\ user_id # Caller(tok).id) =>
            LET r == delete_user(db, tok, user_id) IN
            r.status = 403 /\ r.db = db

\* A regular user asked for the deletion of an existing other account and
\* was refused.
C7_Witness ==
    /\ last.op = "delete_user"
    /\ last.status = 403
    /\ last.detail = "Unable to delete user"
    /\ \E tok \in tokens : Authenticated(tok) /\ ~Caller(tok).admin
    /\ Cardinality(db.users) > 1

\* The responses of every administrator-only operation to the token tok,
\* over all their arguments.
AdminResponses(tok) ==
    {get_users(db, tok), get_all_jobs(db, tok), get_all_searches(db, tok)}
    \cup {upgrade_user(db, tok, n) : n \in Names}
    \cup {downgrade_user(db, tok, n) : n \in Names}
    \cup {sudo_archive_job(db, tok, p[1], p[2]) : p \in (1..MaxId) \X JobIds}
    \cup {sudo_unarchive_job(db, tok, p[1], p[2]) : p \in (1..MaxId) \X JobIds}
    \cup {sudo_delete_rating(db, tok, p[1], p[2]) : p \in (1..MaxId) \X JobIds}
    \cup {sudo_delete_job(db, tok, j) : j \in JobIds}

AdminOps == {"get_users", "upgrade_user", "downgrade_user", "get_all_jobs",
             "get_all_searches", "sudo_archive_job", "sudo_unarchive_job",
             "sudo_delete_rating", "sudo_delete_job"}

\* C8: every administrator-only operation (list users, promote, demote, list
\* all jobs, list all searches, sudo archive/unarchive, sudo delete rating,
\* sudo delete job) called by an authenticated account whose admin flag is
\* false fails with 403 and leaves the store unchanged.
C8_AdminOperationsForbidden ==
    \A tok \in tokens :
        (Authenticated(tok) /\ ~Caller(tok).admin) =>
            \A r \in AdminResponses(tok) : r.status = 403 /\ r.db = db

\* A regular user asked for the deletion of a rating that exists and was
\* refused.
C8_Witness ==
    /\ last.op = "sudo_delete_rating"
    /\ last.status = 403
    /\ \E tok \in tokens : Authenticated(tok) /\ ~Caller(tok).admin
    /\ db.ratings # {}

C10_DeletedAccountTokenStaysInvalid ==
    [][\A tok \in tokens : ~Authenticated(tok) => get_user(db', tok).status = 401]_vars

\* C11: a token issued at time t validates at every time before t + TTL and
\* is invalid at every time after it; a token whose signature was not
\* produced with the server's secret is invalid at every time; the outcome
\* is that of the token, the secret and the clock alone, so that in every
\* store the guard admits the token's account iff the token validates and
\* the account exists.
Times == 0..(MaxClock + TTL + 1)

C11_TokenValidUntilExpiry ==
    /\ \A tok \in tokens, t \in Times :
          /\ t < tok.iat + TTL => validate(tok, t) = tok
          /\ t > tok.iat + TTL => validate(tok, t) = NoToken
    /\ \A tok \in Forged \cup Tampered, t \in Times : validate(tok, t) = NoToken
    /\ \A tok \in tokens :
          get_user(db, validate(tok, now)).status = 200
              <=> (validate(tok, now) = tok /\ tok.user_id \in UserIds(db))

\* A token in circulation was presented after its expiry and was refused.
C11_Witness ==
    /\ last.op = "get_users"
    /\ last.status = 401
    /\ tokens # {}
    /\ \A tok \in tokens : now > tok.exp /\ tok.user_id \in UserIds(db)

\* C12: verify(p, hash(p)) is true for every password p and every salt the
\* hash draws, and verify(q, hash(p)) is false for every q other than p;
\* after a registration with password p the credential stored for the new
\* account verifies p and no other password, and the account can log in
\* with p.
C12_VerifyMatchesHash ==
    /\ \A p \in Passwords, q \in Passwords, salt \in Salts :
          verify(q, hash(p, salt)) <=> (q = p)
    /\ \A username \in Names, email \in Emails, p \in Passwords, salt \in Salts :
          LET r == create_user(db, username, email, p, salt, TRUE)
              created == r.db.users \ db.users
          IN
          r.status = 200 =>
              /\ created # {}
              /\ \A u \in created :
                    /\ u.username = username
                    /\ \A q \in Passwords : verify(q, u.password_hash) <=> (q = p)
              /\ login(r.db, [kind |-> "username", value |-> username], p, now).status = 200

\* An account registered with a password other than the provisioned one
\* has logged in.
C12_Witness ==
    /\ last.op = "login"
    /\ last.status = 200
    /\ \E tok \in tokens, u \in db.users, salt \in Salts :
          /\ u.id = tok.user_id
          /\ u.username = tok.username
          /\ u.password_hash = hash(2, salt)

\* C13: login failures are reported identically whatever their cause: a
\* login naming no account and a login naming an existing account with a
\* wrong password get the same response.
C13_LoginFailuresIndistinguishable ==
    \A i1 \in Identifiers, i2 \in Identifiers, p1 \in Passwords, p2 \in Passwords :
        LET r1 == login(db, i1, p1, now)
            r2 == login(db, i2, p2, now)
        IN
        (r1.status # 200 /\ r2.status # 200) =>
            (r1.status = r2.status /\ r1.detail = r2.detail)

\* C14: login returns a token iff the identifier is the username or the
\* e-mail address of an existing account and the password verifies against
\* that account's credential; with no matching account it fails with 404
\* 'User not found', with a matching account and another password with 401
\* 'Invalid credentials'; it never modifies the store.
C14_LoginOutcomes ==
    \A ident \in Identifiers, p \in Passwords :
        LET r == login(db, ident, p, now)
            found == {u \in db.users :
                         IF ident.kind = "username" THEN u.username = ident.value
                         ELSE u.email = ident.value}
            verified == \E u \in found : verify(p, u.password_hash)
        IN
        /\ r.db = db
        /\ r.status = 200 <=> verified
        /\ r.status = 200 =>
              /\ \E u \in found : r.token.user_id = u.id /\ r.token.username = u.username
              /\ validate(r.token, now) = r.token
        /\ found = {} => (r.status = 404 /\ r.detail = "User not found" /\ r.token = NoToken)
        /\ (found # {} /\ ~verified) =>
              (r.status = 401 /\ r.detail = "Invalid credentials" /\ r.token = NoToken)

\* After a successful login, a login naming an account with a wrong password
\* was refused.
C14_Witness ==
    /\ last.op = "login"
    /\ last.status = 401
    /\ last.detail = "Invalid credentials"
    /\ tokens # {}
    /\ Cardinality(db.users) > 1

\* The jobs of the store d that carry the external key iid, and the ratings
\* that link the account user_id to one of them.
JobsWithKey(d, iid) == {j \in d.jobs : j.iid = iid}

Links(d, iid, user_id) ==
    {r \in d.ratings : r.user_id = user_id /\ \E j \in JobsWithKey(d, iid) : j.id = r.job_id}

\* C15: an account that claims an external key it has not claimed, and then
\* claims it again, succeeds the first time and fails the second time with
\* 400 'Job already exists and has a rating for user'; the second call
\* changes nothing, and the store holds exactly one Job row with the key
\* and exactly one Rating row linking it to the account.
C15_RepeatedClaimIsRefused ==
    \A tok \in tokens, iid \in Keys :
        (Authenticated(tok) /\ Links(db, iid, Caller(tok).id) = {}) =>
            LET first == create_job(db, tok, None, iid)
                second == create_job(first.db, tok, None, iid)
            IN
            /\ first.status = 200
            /\ second.status = 400
            /\ second.detail = "Job already exists and has a rating for user"
            /\ second.db = first.db
            /\ Cardinality(JobsWithKey(second.db, iid)) = 1
            /\ Cardinality(Links(second.db, iid, Caller(tok).id)) = 1

\* A claim of a key the caller is linked to was refused.
C15_Witness ==
    /\ last.op = "create_job"
    /\ last.status = 400
    /\ last.detail = "Job already exists and has a rating for user"
    /\ \E iid \in Keys, tok \in tokens :
          Authenticated(tok) /\ Cardinality(Links(db, iid, Caller(tok).id)) = 1

\* C18: create_job reports 'created' iff no Job with the supplied key
\* existed and a new Job row was inserted, and 'linked to existing' iff a
\* Job with that key existed and only a Rating row was inserted; an account
\* that claims a key another account has claimed is linked to the existing
\* Job: the number of Job rows with the key stays 1 and the Rating of the
\* second account is added to that Job.
Created == "The Job has been created"

LinkedToExisting == "The Job already existed and is now linked to your account"

C18_CreatedOrLinked ==
    \A tok \in tokens, id \in {None, 0}, iid \in {None} \cup Keys :
        Authenticated(tok) =>
            LET r == create_job(db, tok, id, iid)
                caller == Caller(tok).id
                existed == iid # None /\ JobsWithKey(db, iid) # {}
                new_jobs == r.db.jobs \ db.jobs
                new_ratings == r.db.ratings \ db.ratings
            IN
            /\ r.status = 200 =>
                  /\ r.detail \in {Created, LinkedToExisting}
                  /\ r.detail = Created <=>
                        (~existed /\ Cardinality(new_jobs) = 1 /\ db.jobs \subseteq r.db.jobs)
                  /\ r.detail = LinkedToExisting <=> (existed /\ r.db.jobs = db.jobs)
                  /\ Cardinality(new_ratings) = 1
                  /\ db.ratings \subseteq r.db.ratings
                  /\ \A x \in new_ratings :
                        /\ x.user_id = caller
                        /\ \E j \in r.db.jobs : j.id = x.job_id /\ (iid # None => j.iid = iid)
            /\ (existed /\ Links(db, iid, caller) = {}) =>
                  /\ r.status = 200
                  /\ r.detail = LinkedToExisting
                  /\ Cardinality(JobsWithKey(r.db, iid)) = Cardinality(JobsWithKey(db, iid))
                  /\ Cardinality(Links(r.db, iid, caller)) = 1

\* A second account claimed the key of a job the first account had created
\* and was linked to it: one Job row with the key, two Rating rows.
C18_Witness ==
    /\ last.op = "create_job"
    /\ last.status = 200
    /\ last.detail = LinkedToExisting
    /\ \E iid \in Keys :
          /\ Cardinality(JobsWithKey(db, iid)) = 1
          /\ \E j \in JobsWithKey(db, iid) :
                Cardinality({r \in db.ratings : r.job_id = j.id}) = 2

\* C19: a create_job request whose payload carries a primary id is rejected
\* with 400 before any lookup or insert: no Job row and no Rating row is
\* created or changed.
C19_PayloadIdRejected ==
    \A tok \in tokens, id \in {0, 1}, iid \in {None} \cup Keys :
        Authenticated(tok) =>
            LET r == create_job(db, tok, id, iid) IN
            r.status = 400 /\ r.db = db

\* C16: when two create_job requests of one account for the same key, which
\* no job carried when they arrived, are in flight together, exactly one of
\* them succeeds and the other fails with 400 (the already-linked error,
\* not 500); afterwards the store holds one Job row with the key and one
\* Rating row linking it to the account.
RacingClaims(r1, r2) ==
    /\ r1.op = "create_job" /\ r2.op = "create_job"
    /\ r1.pc = "done" /\ r2.pc = "done"
    /\ r1.status # None /\ r2.status # None
    /\ r1.unseen /\ r2.unseen
    /\ r1.job.iid = r2.job.iid
    /\ r1.job.id = None /\ r2.job.id = None
    /\ r1.user # NoUser /\ r2.user # NoUser

C16_OneRacingClaimSucceeds ==
    \A w1 \in Workers, w2 \in Workers :
        (w1 # w2 /\ RacingClaims(reqs[w1], reqs[w2]) /\ reqs[w1].user.id = reqs[w2].user.id) =>
            /\ \/ reqs[w1].status = 200 /\ reqs[w2].status = 400
               \/ reqs[w1].status = 400 /\ reqs[w2].status = 200
            /\ Cardinality(JobsWithKey(db, reqs[w1].job.iid)) = 1
            /\ Cardinality(Links(db, reqs[w1].job.iid, reqs[w1].user.id)) = 1

\* C17: after any sequence and any interleaving of create_job requests of
\* any accounts, at most one Job row carries any given external key.
C17_OneJobPerKey ==
    \A iid \in Keys : Cardinality(JobsWithKey(db, iid)) <= 1

\* C20: the create path of create_job is atomic: a Job row appears in the
\* store only in the commit that also adds the Rating row of the account
\* that created it, and a request that fails or is aborted, also after its
\* Job insert was flushed, leaves the store as it was.
C20_JobAndRatingCommitTogether ==
    [][ /\ \A j \in db'.jobs \ db.jobs :
              \E w \in Workers :
                  /\ reqs[w].pc = "commit_rating" /\ reqs'[w].pc = "done"
                  /\ reqs[w].flushed = j
                  /\ [job_id |-> j.id, user_id |-> reqs[w].user.id]
                         \in db'.ratings \ db.ratings
        /\ \A w \in Workers :
              (reqs[w].pc # "done" /\ reqs'[w].pc = "done" /\ reqs'[w].status # 200)
                  => db' = db
      ]_vars

\* A request was aborted after its Job insert was flushed, and its Job row
\* is not in the store.
C20_Witness ==
    \E w \in Workers :
        /\ reqs[w].pc = "done"
        /\ reqs[w].status = None
        /\ reqs[w].flushed # NoJob
        /\ reqs[w].flushed \notin db.jobs

\* C26: create_search rejects a body that carries an id with 400, rejects a
\* non-administrator whose body names a user_id other than their own with
\* 403, and otherwise inserts exactly one Search, owned by the body's
\* user_id when the caller is an administrator and by the caller otherwise.
C26_CreateSearchOutcomes ==
    \A tok \in tokens,
       search \in SearchPayloads({None, 0, 1}, 0..(MaxId + 1), Titles, {None}) :
        Authenticated(tok) =>
            LET r == create_search(db, tok, search, now)
                caller == Caller(tok)
                new == r.db.searches \ db.searches
            IN
            IF search.id # None THEN r.status = 400 /\ r.db = db
            ELSE IF ~caller.admin /\ search.user_id # caller.id
                 THEN r.status = 403 /\ r.db = db
            ELSE /\ r.status = 200
                 /\ Cardinality(new) = 1
                 /\ r.db = [db EXCEPT !.searches = @ \cup new]
                 /\ \A s \in new :
                       s.user_id = IF caller.admin THEN search.user_id ELSE caller.id

\* C27: an update or a deletion of a Search succeeds iff the Search exists
\* and the caller owns it or is an administrator; a missing Search gives
\* 404 (an update whose body has no id gives 400), a caller who is neither
\* owner nor administrator gives 403, and a failing request changes no row.
C27_SearchUpdateDeleteOutcomes ==
    \A tok \in tokens :
        Authenticated(tok) =>
            LET caller == Caller(tok)
                allowed(s) == s.user_id = caller.id \/ caller.admin
            IN
            /\ \A search \in SearchPayloads({None} \cup (0..(MaxSearches + 1)), 1..MaxId,
                                            Titles, {None}) :
                  LET r == update(db, tok, search)
                      found == {s \in db.searches : s.id = search.id}
                  IN
                  /\ r.status = 200 <=> (\E s \in found : allowed(s))
                  /\ r.status # 200 =>
                        /\ r.db = db
                        /\ r.status = IF search.id = None THEN 400
                                      ELSE IF found = {} THEN 404 ELSE 403
            /\ \A search_id \in 0..(MaxSearches + 1) :
                  LET r == delete_search(db, tok, search_id)
                      found == {s \in db.searches : s.id = search_id}
                  IN
                  /\ r.status = 200 <=> (\E s \in found : allowed(s))
                  /\ r.status = 200 => r.db = [db EXCEPT !.searches = @ \ found]
                  /\ r.status # 200 =>
                        /\ r.db = db
                        /\ r.status = IF found = {} THEN 404 ELSE 403

C25_ArchivedFlagTwoStates ==
    \A tok \in tokens, job_id \in JobIds :
        /\ Authenticated(tok) =>
              LET on == archive_job(db, tok, job_id)
                  off == unarchive_job(db, tok, job_id)
              IN
              IF HasRating(db, job_id, Caller(tok).id)
              THEN \/ on.status = 200 /\ off.status = 400 /\ off.db = db
                   \/ on.status = 400 /\ off.status = 200 /\ on.db = db
              ELSE on.status = 404 /\ off.status = 404 /\ on.db = db /\ off.db = db
        /\ IsAdminCaller(tok) =>
              \A user_id \in 1..MaxId :
                  LET on == sudo_archive_job(db, tok, user_id, job_id)
                      off == sudo_unarchive_job(db, tok, user_id, job_id)
                  IN
                  IF HasRating(db, job_id, user_id)
                  THEN \/ on.status = 200 /\ off.status = 400 /\ off.db = db
                       \/ on.status = 400 /\ off.status = 200 /\ on.db = db
                  ELSE on.status = 404 /\ off.status = 404 /\ on.db = db /\ off.db = db

\* C30: after any sequence of create_job, delete_rating, sudo_delete_rating,
\* sudo_delete_job and delete_user requests, every Rating row refers to a
\* Job row and to an account that exist, and every Search row refers to an
\* account that exists.
C30_NoDanglingReferences ==
    /\ \A r \in db.ratings :
          /\ \E j \in db.jobs : j.id = r.job_id
          /\ r.user_id \in UserIds(db)
    /\ \A s \in db.searches : s.user_id \in UserIds(db)

\* The deletion of an account that has a Rating and a Search was asked for
\* and the account and its rows are in the store.
C30_Witness ==
    /\ last.op = "delete_user"
    /\ last.status = 500
    /\ \E u \in db.users :
          /\ \E r \in db.ratings : r.user_id = u.id
          /\ \E x \in db.searches : x.user_id = u.id

\* The responses of the operations open to every account to the token tok,
\* over all their arguments, and those of the operations that need no
\* token.
UserResponses(tok) ==
    {delete_user(db, tok, u) : u \in OptUserIds}
    \cup {create_job(db, tok, p[1], p[2]) : p \in {None, 0, 1} \X ({None} \cup Keys)}
    \cup {archive_job(db, tok, j) : j \in 0..MaxJobs}
    \cup {unarchive_job(db, tok, j) : j \in 0..MaxJobs}
    \cup {delete_rating(db, tok, j) : j \in 0..MaxJobs}
    \cup {create_search(db, tok, x, now) :
             x \in SearchPayloads({None, 0, 1}, 0..(MaxId + 1), {1}, {None})}
    \cup {update(db, tok, x) :
             x \in SearchPayloads({None} \cup (0..MaxSearches), 1..MaxId, Titles, {None})}
    \cup {delete_search(db, tok, i) : i \in 0..MaxSearches}

OpenResponses ==
    {create_user(db, p[1], p[2], 1, 1, p[3]) : p \in Names \X Emails \X BOOLEAN}
    \cup {[status |-> r.status, detail |-> r.detail, db |-> r.db] :
             r \in {login(db, ident, password, now) :
                       ident \in Identifiers, password \in Passwords}}

\* C21: every request that ends in an error response (400, 401, 403, 404,
\* 500), on any user, job or search operation, leaves the store as it was:
\* only requests that return success commit anything.
C21_ErrorsCommitNothing ==
    /\ \A tok \in tokens \cup {NoToken} :
          \A r \in UserResponses(tok) \cup AdminResponses(tok) :
              /\ r.status \in {200, 400, 401, 403, 404, 500}
              /\ r.status # 200 => r.db = db
    /\ \A r \in OpenResponses : r.status # 200 => r.db = db

\* The deletion of a job that has a Rating was asked for by an
\* administrator and failed: the job and the Rating are in the store.
C21_Witness ==
    /\ last.op = "sudo_delete_job"
    /\ last.status = 500
    /\ \E j \in db.jobs : \E r \in db.ratings : r.job_id = j.id

\* The responses of the administrator-only operations other than promote
\* and demote to the token tok.
AdminDataResponses(tok) ==
    {get_users(db, tok), get_all_jobs(db, tok), get_all_searches(db, tok)}
    \cup {sudo_archive_job(db, tok, p[1], p[2]) : p \in (1..MaxId) \X JobIds}
    \cup {sudo_unarchive_job(db, tok, p[1], p[2]) : p \in (1..MaxId) \X JobIds}
    \cup {sudo_delete_rating(db, tok, p[1], p[2]) : p \in (1..MaxId) \X JobIds}
    \cup {sudo_delete_job(db, tok, j) : j \in JobIds}

\* Every account of the store e has the admin flag it has in the store d,
\* and is not an administrator when d does not hold it.
KeepsAdminFlags(d, e) ==
    \A u \in e.users :
        IF u.id \in UserIds(d) THEN u.admin = UserById(d, u.id).admin ELSE ~u.admin

\* C23: the admin flag of an account changes through promote and demote
\* only: a registration creates its account with admin = false, and no
\* login, deletion, job or search operation changes the admin flag of an
\* account that stays in the store.
C23_AdminFlagFrame ==
    /\ \A tok \in tokens \cup {NoToken} :
          \A r \in UserResponses(tok) \cup AdminDataResponses(tok) :
              KeepsAdminFlags(db, r.db)
    /\ \A r \in OpenResponses : KeepsAdminFlags(db, r.db)
    /\ \A username \in Names, email \in Emails :
          LET r == create_user(db, username, email, 1, 1, TRUE) IN
          r.status = 200 =>
              \E u \in r.db.users \ db.users : u.username = username /\ ~u.admin

\* An account was registered while the store held no administrator, and
\* it is not one.
C23_Witness ==
    /\ last.op = "create_user"
    /\ last.status = 200
    /\ db.users # {}
    /\ Admins(db) = {}

\* C24: a caller who is not an administrator creates, changes and deletes
\* only Rating, Search and account rows of their own account, as the token
\* resolves it, whatever user_id the body or the query of the request
\* carries.
C24_OnlyOwnRows ==
    \A tok \in tokens :
        (Authenticated(tok) /\ ~Caller(tok).admin) =>
            \A r \in UserResponses(tok) \cup AdminResponses(tok) :
                /\ \A x \in (r.db.ratings \ db.ratings) \cup (db.ratings \ r.db.ratings) :
                      x.user_id = Caller(tok).id
                /\ \A x \in (r.db.searches \ db.searches) \cup (db.searches \ r.db.searches) :
                      x.user_id = Caller(tok).id
                /\ \A u \in (r.db.users \ db.users) \cup (db.users \ r.db.users) :
                      u.id = Caller(tok).id

\* A caller who is not an administrator asked for the deletion of another
\* account that has a Rating and a Search, and was refused.
C24_Witness ==
    /\ last.op = "delete_user"
    /\ last.status = 403
    /\ \E tok \in tokens, u \in db.users :
          /\ Authenticated(tok)
          /\ ~Caller(tok).admin
          /\ u.id # Caller(tok).id
          /\ \E r \in db.ratings : r.user_id = u.id
          /\ \E x \in db.searches : x.user_id = u.id

\* C29: a create_job request without an external key does not depend on
\* the jobs of the store: it succeeds with 'created', inserts one Job row
\* with a key no job carried and a Rating of the caller for it; two such
\* requests of one account yield two Job rows with different ids and
\* different keys.
C29_KeylessClaimsAlwaysCreate ==
    \A tok \in tokens :
        Authenticated(tok) =>
            LET first == create_job(db, tok, None, None)
                second == create_job(first.db, tok, None, None)
                a == first.db.jobs \ db.jobs
                b == second.db.jobs \ first.db.jobs
                caller == Caller(tok).id
            IN
            /\ first.status = 200 /\ first.detail = Created
            /\ second.status = 200 /\ second.detail = Created
            /\ Cardinality(a) = 1 /\ Cardinality(b) = 1
            /\ db.jobs \subseteq first.db.jobs
            /\ first.db.jobs \subseteq second.db.jobs
            /\ \A j \in a :
                  /\ \A k \in db.jobs : k.iid # j.iid /\ k.id # j.id
                  /\ first.db.ratings \ db.ratings = {[job_id |-> j.id, user_id |-> caller]}
            /\ \A j \in b :
                  /\ \A k \in first.db.jobs : k.iid # j.iid /\ k.id # j.id
                  /\ second.db.ratings \ first.db.ratings
                         = {[job_id |-> j.id, user_id |-> caller]}

\* One account has created two jobs without an external key: the store
\* holds both, with different generated keys, each with its Rating.
C29_Witness ==
    /\ last.op = "create_job"
    /\ last.status = 200
    /\ last.detail = Created
    /\ \E j1 \in db.jobs, j2 \in db.jobs, tok \in tokens :
          /\ j1.id # j2.id
          /\ j1.iid < None /\ j2.iid < None
          /\ j1.iid # j2.iid
          /\ HasRating(db, j1.id, tok.user_id)
          /\ HasRating(db, j2.id, tok.user_id)

\* No two accounts of the store d share a username or an e-mail address.
Unique(d) ==
    \A u \in d.users, v \in d.users :
        u.id # v.id => (u.username # v.username /\ u.email # v.email)

====
